---- MODULE Spec2Model ----
(***************************************************************************)
(* Model of temp_script.py: a script that reads one file, splits it into    *)
(* lines, scans for a start-marker line and then for an end-marker line,    *)
(* exits with a message when a marker is missing, and then begins to build  *)
(* a replacement block.                                                     *)
(*                                                                          *)
(* Text is modelled as a sequence of chunks.  A chunk is the text of the    *)
(* start marker, the text of the end marker, some other text, or a newline. *)
(* A line is the sequence of chunks between two newlines, so a line equals  *)
(* a marker exactly when it is the one-chunk sequence holding that marker,  *)
(* and it merely contains the marker when the marker is one of its chunks.  *)
(* Python indices are 0-based: Python's lines[k] is lines[k+1] here.        *)
(***************************************************************************)
EXTENDS Integers, Sequences, FiniteSets, TLC

\* Longest file text considered, in chunks.
MaxFileLen == 7

StartMarker == "              {items.map((item, index) => ("
EndMarker == "            </div>"
OtherText == "#"
Newline == "\n"

Chunks == {StartMarker, EndMarker, OtherText, Newline}

\* Python's None, and a present value, for start / end / new_block / exit.
None == <<>>
Some(v) == <<v>>
Val(x) == x[1]

VARIABLES pc, file, lines, i, start, end, new_block, exit_msg

vars == <<pc, file, lines, i, start, end, new_block, exit_msg>>

\* All file texts of at most MaxFileLen chunks.
Texts == UNION {[1..n -> Chunks] : n \in 0..MaxFileLen}

\* str.splitlines(): cut at every newline; a text that ends in a newline
\* has no empty last line.
RECURSIVE SplitFrom(_, _, _)
SplitFrom(text, cur, acc) ==
    IF text = <<>>
    THEN IF cur = <<>> THEN acc ELSE Append(acc, cur)
    ELSE IF Head(text) = Newline
         THEN SplitFrom(Tail(text), <<>>, Append(acc, cur))
         ELSE SplitFrom(Tail(text), Append(cur, Head(text)), acc)

splitlines(text) == SplitFrom(text, <<>>, <<>>)

\* Python list indexing lines[k]: a negative k counts from the end.
LinesAt(k) == IF k < 0 THEN lines[Len(lines) + k + 1] ELSE lines[k + 1]

\* Mutant of IsStartLine: substring containment instead of equality.
IsStartLineSubstring(line) == \E k \in 1..Len(line) : line[k] = StartMarker

\* line == '              {items.map((item, index) => ('
IsStartLine(line) == line = <<StartMarker>>

\* lines[end] == '            </div>'
IsEndLine(line) == line = <<EndMarker>>

Init ==
    /\ pc = "read"
    /\ file \in Texts
    /\ lines = <<>>
    /\ i = 0
    /\ start = None
    /\ end = None
    /\ new_block = None
    /\ exit_msg = None

\* lines = path.read_text().splitlines()
ReadText ==
    /\ pc = "read"
    /\ lines' = splitlines(file)
    /\ pc' = "init_start"
    /\ UNCHANGED <<file, i, start, end, new_block, exit_msg>>

\* start = None
InitStart ==
    /\ pc = "init_start"
    /\ start' = None
    /\ i' = 0
    /\ pc' = "for"
    /\ UNCHANGED <<file, lines, end, new_block, exit_msg>>

\* Mutant of ForLoop: no break, so the last matching line wins.
ForLoopNoBreak ==
    /\ pc = "for"
    /\ IF i < Len(lines)
       THEN /\ start' = IF IsStartLine(lines[i + 1]) THEN Some(i - 1) ELSE start
            /\ i' = i + 1
            /\ pc' = pc
       ELSE /\ pc' = "if_start"
            /\ UNCHANGED <<i, start>>
    /\ UNCHANGED <<file, lines, end, new_block, exit_msg>>

\* for i,line in enumerate(lines): if line == START: start = i-1; break
\* (one iteration per step; i is the index of the item enumerate yields next)
ForLoop ==
    /\ pc = "for"
    /\ IF i < Len(lines)
       THEN IF IsStartLine(lines[i + 1])
            THEN /\ start' = Some(i - 1)
                 /\ pc' = "if_start"
                 /\ i' = i
            ELSE /\ i' = i + 1
                 /\ UNCHANGED <<pc, start>>
       ELSE /\ pc' = "if_start"
            /\ UNCHANGED <<i, start>>
    /\ UNCHANGED <<file, lines, end, new_block, exit_msg>>

\* Mutant of IfStartNone: reports the missing marker but carries on.
IfStartNoneNoExit ==
    /\ pc = "if_start"
    /\ exit_msg' = IF start = None THEN Some("start not found") ELSE exit_msg
    /\ pc' = "end_init"
    /\ UNCHANGED <<file, lines, i, start, end, new_block>>

\* if start is None: raise SystemExit('start not found')
IfStartNone ==
    /\ pc = "if_start"
    /\ IF start = None
       THEN /\ exit_msg' = Some("start not found")
            /\ pc' = "exit"
       ELSE /\ pc' = "end_init"
            /\ UNCHANGED exit_msg
    /\ UNCHANGED <<file, lines, i, start, end, new_block>>

\* end = start
AssignEnd ==
    /\ pc = "end_init"
    /\ end' = start
    /\ pc' = "while"
    /\ UNCHANGED <<file, lines, i, start, new_block, exit_msg>>

\* Mutant of WhileLoop: the body forgets end += 1.
WhileLoopNoIncrement ==
    /\ pc = "while"
    /\ IF Val(end) < Len(lines) /\ ~IsEndLine(LinesAt(Val(end)))
       THEN UNCHANGED <<pc, end>>
       ELSE /\ pc' = "if_end"
            /\ UNCHANGED end
    /\ UNCHANGED <<file, lines, i, start, new_block, exit_msg>>

\* while end < len(lines) and lines[end] != END: end += 1
\* (one test of the condition per step)
WhileLoop ==
    /\ pc = "while"
    /\ IF Val(end) < Len(lines) /\ ~IsEndLine(LinesAt(Val(end)))
       THEN /\ end' = Some(Val(end) + 1)
            /\ UNCHANGED pc
       ELSE /\ pc' = "if_end"
            /\ UNCHANGED end
    /\ UNCHANGED <<file, lines, i, start, new_block, exit_msg>>

\* Mutant of IfEnd: > in place of >=.
IfEndOffByOne ==
    /\ pc = "if_end"
    /\ IF Val(end) > Len(lines)
       THEN /\ exit_msg' = Some("end not found")
            /\ pc' = "exit"
       ELSE /\ pc' = "new_block"
            /\ UNCHANGED exit_msg
    /\ UNCHANGED <<file, lines, i, start, end, new_block>>

\* if end >= len(lines): raise SystemExit('end not found')
IfEnd ==
    /\ pc = "if_end"
    /\ IF Val(end) >= Len(lines)
       THEN /\ exit_msg' = Some("end not found")
            /\ pc' = "exit"
       ELSE /\ pc' = "new_block"
            /\ UNCHANGED exit_msg
    /\ UNCHANGED <<file, lines, i, start, end, new_block>>

\* Mutant of BuildBlock: splices the block over the located region and
\* writes the result back.
BuildBlockAndWrite ==
    /\ pc = "new_block"
    /\ new_block' = Some("block")
    /\ lines' = <<<<OtherText>>>>
    /\ file' = <<OtherText, Newline>>
    /\ pc' = "done"
    /\ UNCHANGED <<i, start, end, exit_msg>>

\* new_block = """ ... (the literal replacement text; the source stops here)
BuildBlock ==
    /\ pc = "new_block"
    /\ new_block' = Some("block")
    /\ pc' = "done"
    /\ UNCHANGED <<file, lines, i, start, end, exit_msg>>

Next ==
    \/ ReadText
    \/ InitStart
    \/ ForLoop
    \/ IfStartNone
    \/ AssignEnd
    \/ WhileLoop
    \/ IfEnd
    \/ BuildBlock

Spec == Init /\ [][Next]_vars

\* The interpreter runs the single thread until the script ends.
LiveSpec == Spec /\ WF_vars(Next)


(***************************************************************************)
(* Vocabulary of the properties.  These are stated over the lines          *)
(* themselves, with Python's 0-based indices.                               *)
(***************************************************************************)
StartIdxs == {k \in 0..(Len(lines) - 1) : lines[k + 1] = <<StartMarker>>}
EndIdxs == {k \in 0..(Len(lines) - 1) : lines[k + 1] = <<EndMarker>>}
Min(S) == CHOOSE m \in S : \A n \in S : m <= n
Max0(n) == IF n < 0 THEN 0 ELSE n

Terminated == pc \in {"exit", "done"}
StartNotFound == pc = "exit" /\ exit_msg = Some("start not found")
EndNotFound == pc = "exit" /\ exit_msg = Some("end not found")
\* Both checks passed: the region start..end is located.
Located == pc \in {"new_block", "done"}
RegionLocated == pc = "done" /\ exit_msg = None /\ new_block # None

\* C1: when the first start-marker line is at index i0 and the first
\* end-marker line after it is at index j, the run ends with the region
\* located, start = i0 - 1 and end = j.
C1_LocatesFromBeforeStartThroughEnd ==
    \A i0 \in StartIdxs, j \in EndIdxs :
        ( /\ Terminated
          /\ i0 = Min(StartIdxs)
          /\ j > i0
          /\ \A k \in EndIdxs : k > i0 => j <= k )
        => /\ RegionLocated
           /\ start = Some(i0 - 1)
           /\ end = Some(j)

\* C2: a finished run has failed with "start not found" exactly when no
\* line is equal, as a whole line, to the start marker; and that message
\* is never raised while some line equals the start marker.
C2_StartNotFoundIffAbsent ==
    /\ Terminated => (StartNotFound <=> StartIdxs = {})
    /\ exit_msg = Some("start not found") => StartIdxs = {}

\* A run that failed with "start not found" on a file in which a line
\* contains the start marker without being equal to it.
C2_Witness ==
    /\ StartNotFound
    /\ \E k \in 1..Len(lines) :
          /\ Len(lines[k]) > 1
          /\ \E c \in 1..Len(lines[k]) : lines[k][c] = StartMarker

\* C3: when the start marker is found at index i0 and no line after
\* index i0 equals the end marker, the run ends in "end not found".
C3_EndNotFoundWhenNoEndAfterStart ==
    ( /\ Terminated
      /\ StartIdxs # {}
      /\ \A k \in EndIdxs : k <= Min(StartIdxs) )
    => EndNotFound

\* C4: the end scan never tests the line at the located start index, and
\* on every located region end > start.
C4_EndScanBeginsAfterStart ==
    (pc = "while" \/ Located) => Val(end) > Val(start)

\* C5: on every located region, 0 <= start <= end < len(lines).
C5_IndicesInRange ==
    Located =>
        /\ 0 <= Val(start)
        /\ Val(start) <= Val(end)
        /\ Val(end) < Len(lines)

\* C6: once read, the lines stay what splitting the file text gives, in
\* every step and outcome, and no step changes the file text.
C6_NoSideEffects ==
    /\ [](pc # "read" => lines = splitlines(file))
    /\ [][file' = file /\ (pc # "read" => lines' = lines)]_vars

\* A located region on a file of at least three lines, after the
\* replacement block has been built.
C6_Witness == RegionLocated /\ Len(lines) >= 3 /\ lines = splitlines(file)

\* C7: a failure stops the run at once: after "start not found" the end
\* scan has not run and never runs, after either failure no step changes
\* anything, and the replacement block exists only when both markers
\* have been found.
C7_FailureIsFatal ==
    /\ [](exit_msg # None => pc = "exit" /\ new_block = None)
    /\ [](exit_msg = Some("start not found") => end = None)
    /\ [](new_block # None =>
            /\ start # None
            /\ end # None
            /\ Val(end) < Len(lines)
            /\ LinesAt(Val(end)) = <<EndMarker>>)
    /\ [][exit_msg # None => UNCHANGED vars]_vars

\* A run that failed with "start not found" on a file that has an
\* end-marker line the end scan would have accepted.
C7_Witness == StartNotFound /\ EndIdxs # {} /\ end = None

\* C8 as stated: on every located region exactly one line equals the
\* start marker, exactly one line equals the end marker, and the former
\* precedes the latter.
C8_MarkersUniqueAndOrdered ==
    Located =>
        /\ Cardinality(StartIdxs) = 1
        /\ Cardinality(EndIdxs) = 1
        /\ \A a \in StartIdxs, b \in EndIdxs : a < b

\* C8 amended: on every located region at least one line equals the
\* start marker and at least one line equals the end marker.
C8_MarkersPresent ==
    Located => StartIdxs # {} /\ EndIdxs # {}

\* A located region on a file with two start-marker lines.
C8_Witness == Located /\ Cardinality(StartIdxs) = 2 /\ EndIdxs # {}

\* C9: every run terminates, in exactly one of the three outcomes; the
\* end scan moves its index up by one per step and never past
\* len(lines).
C9_TerminatesInOneOutcome ==
    /\ <>Terminated
    /\ [](Terminated =>
            /\ StartNotFound \/ EndNotFound \/ RegionLocated
            /\ ~(StartNotFound /\ EndNotFound)
            /\ ~(StartNotFound /\ RegionLocated)
            /\ ~(EndNotFound /\ RegionLocated))
    /\ [](end # None => Val(end) <= Len(lines))
    /\ [][pc = "while" /\ pc' = "while" => Val(end') = Val(end) + 1]_vars

\* An end scan that walked at least two steps, up to len(lines).
C9_Witness ==
    /\ EndNotFound
    /\ Val(start) >= 0
    /\ Val(end) = Len(lines)
    /\ Val(end) >= Val(start) + 2

\* C10: on every located region the line at index end equals the end
\* marker, no line at an index k with max(start, 0) <= k < end equals
\* it, and start is one less than the index of the first line equal to
\* the start marker.
C10_FirstMarkersBoundRegion ==
    Located =>
        /\ LinesAt(Val(end)) = <<EndMarker>>
        /\ \A k \in Max0(Val(start))..(Val(end) - 1) :
              lines[k + 1] # <<EndMarker>>
        /\ StartIdxs # {}
        /\ Val(start) = Min(StartIdxs) - 1

\* A located region on a file with two start-marker lines, the first of
\* them not the first line, and the end scan having stepped.
C10_Witness ==
    /\ Located
    /\ Cardinality(StartIdxs) = 2
    /\ Val(start) >= 0
    /\ Val(end) > Val(start)

====
